---- MODULE Spec2Model ----
(***************************************************************************)
(* Model of libsysfs' class and device builders (lib/sysfs_class.c and     *)
(* lib/sysfs_device.c).                                                    *)
(*                                                                         *)
(* The C heap is a sequence of objects; a pointer is an index into it and  *)
(* NULL is 0.  free() increments the object's "frees" counter, so a leak   *)
(* is frees = 0 and a double free is frees = 2.  A C string is the tuple   *)
(* of its parts: a path is the tuple of its non-empty '/'-separated        *)
(* components (so "" is the empty tuple), a link name or an attribute      *)
(* value is the tuple of its characters.  A null string pointer is         *)
(* NullStr.  Every C function is an operator from a machine state          *)
(* s = [heap, errno, ret] to the machine state after the call, ret holding *)
(* the returned value; Bind names the locals of a function.                *)
(* calloc/malloc are assumed to succeed.                                   *)
(***************************************************************************)
EXTENDS Integers, Sequences, FiniteSets, TLC

VARIABLES fs, heap, errno, call, arg, ret

vars == <<fs, heap, errno, call, arg, ret>>

(* ------------------------------ bounds --------------------------------- *)
MaxDepth == 2       \* levels below the root of the device tree
MaxFail == 2        \* directories of one tree that fail to open or read
MaxLinks == 3       \* link entries of a class device directory
MaxSubdirs == 3     \* class device directories below a class root
NameBufLen == 2     \* stands for SYSFS_NAME_LEN, scaled down

MaxValLen == NameBufLen + 2

(* --------------------------- C-level basics ---------------------------- *)
NULL == 0
NullStr == <<"NULL">>
EINVAL == "EINVAL"

Min(a, b) == IF a < b THEN a ELSE b

Take(str, n) == SubSeq(str, 1, Min(n, Len(str)))

strncmp(a, b, n) == IF Take(a, n) = Take(b, n) THEN 0 ELSE 1

SYSFS_DEVICES_NAME == <<"d", "e", "v", "i", "c", "e", "s">>
SYSFS_DRIVERS_NAME == <<"d", "r", "i", "v", "e", "r", "s">>
SYSFS_NAME_ATTRIBUTE == <<"n", "a", "m", "e">>
SYSFS_CLASS_DIR == <<"class">>

(* calloc(1, sizeof(struct ...)): every field zero *)
Blank(kind) ==
    [kind |-> kind, frees |-> 0,
     directory |-> NULL, sysdevice |-> NULL, driver |-> NULL, device |-> NULL,
     children |-> NULL, devices |-> NULL,
     items |-> <<>>, del |-> "none",
     name |-> <<>>, path |-> <<>>, bus_id |-> <<>>,
     attributes |-> <<>>, subdirs |-> <<>>, links |-> <<>>,
     subdirs_read |-> FALSE]

Alloc(s, obj) == [s EXCEPT !.heap = Append(@, obj), !.ret = Len(s.heap) + 1]

Free(s, p) == [s EXCEPT !.heap[p].frees = @ + 1]

Return(s, v) == [s EXCEPT !.ret = v]

\* a local of the C function: the value v under the name K gives it
Bind(v, K(_)) == K(v)

(* ------------------- collaborators (sysfs_dir, utils) ------------------ *)
\* the directory a path names, if the file system has one
Exists(f, path) == path \in DOMAIN f.dirs

sysfs_open_directory(s, f, path) ==
    IF path = NullStr \/ ~Exists(f, path) \/ f.dirs[path].status = "noopen"
    THEN Return(s, NULL)
    ELSE Alloc(s, [Blank("directory") EXCEPT
                     !.path = path,
                     !.name = IF path = <<>> THEN <<>> ELSE <<path[Len(path)]>>])

sysfs_read_directory(s, f, d) ==
    IF f.dirs[s.heap[d].path].status = "noread"
    THEN Return(s, -1)
    ELSE Return([s EXCEPT !.heap[d].attributes = f.dirs[s.heap[d].path].attrs,
                          !.heap[d].subdirs = f.dirs[s.heap[d].path].subdirs,
                          !.heap[d].links = f.dirs[s.heap[d].path].links], 0)

sysfs_close_directory(s, d) == IF d = NULL THEN s ELSE Free(s, d)

\* reads the entries of every subdirectory of the snapshot, one level deep
sysfs_read_all_subdirs(s, d) == [s EXCEPT !.heap[d].subdirs_read = TRUE]

\* 0 and the mount point, or -1 when sysfs is not mounted
sysfs_get_mnt_path(f) ==
    IF f.mnt = NullStr THEN [ret |-> -1, path |-> <<>>]
    ELSE [ret |-> 0, path |-> f.mnt]

\* the driver builder: a Driver for a directory that opens and reads
sysfs_open_driver(s, f, path) ==
    IF path = NullStr \/ ~Exists(f, path) \/ f.dirs[path].status # "ok"
    THEN Return(s, NULL)
    ELSE Alloc(s, [Blank("driver") EXCEPT
                     !.path = path, !.name = <<path[Len(path)]>>])

\* value of the first attribute with that name, NullStr when there is none
RECURSIVE sysfs_get_value_from_attributes(_, _)
sysfs_get_value_from_attributes(attrs, name) ==
    IF attrs = <<>> THEN NullStr
    ELSE IF attrs[1].name = name THEN attrs[1].value
    ELSE sysfs_get_value_from_attributes(Tail(attrs), name)

\* ret = 0 and the last component, or ret = -1 for a path without one
sysfs_get_name_from_path(path) ==
    IF path = NullStr \/ path = <<>>
    THEN [ret |-> -1, name |-> <<>>]
    ELSE [ret |-> 0, name |-> <<path[Len(path)]>>]

(* ------------------------------- dlist --------------------------------- *)
dlist_new_with_delete(s, del) == Alloc(s, [Blank("dlist") EXCEPT !.del = del])

\* insert at the head of the list
dlist_unshift(s, l, p) == [s EXCEPT !.heap[l].items = <<p>> \o @]

dlist_count(s, l) == Len(s.heap[l].items)

(* ---------------------------- sysfs_device.c --------------------------- *)
RECURSIVE dlist_destroy(_, _)
RECURSIVE DestroyItems(_, _, _)
RECURSIVE sysfs_close_device(_, _)
RECURSIVE sysfs_close_class_device(_, _)

sysfs_close_driver(s, drv) == IF drv = NULL THEN s ELSE Free(s, drv)

sysfs_close_device(s, dev) ==
    IF dev = NULL THEN s
    ELSE
    Bind(IF s.heap[dev].directory # NULL
         THEN sysfs_close_directory(s, s.heap[dev].directory)
         ELSE s, LAMBDA s1 :
    Bind(IF s1.heap[dev].children # NULL
            /\ dlist_count(s1, s1.heap[dev].children) = 0
         THEN dlist_destroy(s1, s1.heap[dev].children)
         ELSE s1, LAMBDA s2 :
    Free(s2, dev)))

sysfs_del_device(s, dev) == sysfs_close_device(s, dev)

sysfs_close_cls_dev(s, dev) == sysfs_close_class_device(s, dev)

DestroyItems(s, del, items) ==
    IF items = <<>> THEN s
    ELSE DestroyItems(IF del = "sysfs_del_device"
                      THEN sysfs_del_device(s, items[1])
                      ELSE IF del = "sysfs_close_cls_dev"
                      THEN sysfs_close_cls_dev(s, items[1])
                      ELSE s,
                      del, Tail(items))

\* calls the list's delete function on every element, then frees the list
dlist_destroy(s, l) ==
    Free(DestroyItems(s, s.heap[l].del, s.heap[l].items), l)

\* the C string read back from dev->name after strncpy(dev->name, p, N):
\* a value shorter than the buffer is copied whole and zero padded; a longer
\* one fills the buffer without a terminator, and the read runs into the
\* bytes that follow the buffer (f.adj).
NameAfterCopy(f, p) ==
    IF Len(p) < NameBufLen THEN p ELSE Take(p, NameBufLen) \o f.adj

StripNewline(str) ==
    IF Len(str) > 0 /\ str[Len(str)] = "\n"
    THEN SubSeq(str, 1, Len(str) - 1)
    ELSE str

sysfs_open_device(s, f, path) ==
    IF path = NullStr THEN Return([s EXCEPT !.errno = EINVAL], NULL)
    ELSE
    Bind(Alloc(s, Blank("device")), LAMBDA a :
    Bind(sysfs_open_directory(a, f, path), LAMBDA o :
    IF o.ret = NULL
    THEN Return(sysfs_close_device([o EXCEPT !.errno = EINVAL], a.ret), NULL)
    ELSE
    Bind(sysfs_read_directory(o, f, o.ret), LAMBDA r :
    IF r.ret # 0
    THEN Return(sysfs_close_device(sysfs_close_directory(r, o.ret), a.ret),
                NULL)
    ELSE
    Bind(sysfs_get_value_from_attributes(r.heap[o.ret].attributes,
                                         SYSFS_NAME_ATTRIBUTE), LAMBDA p :
    Return([r EXCEPT !.heap[a.ret].directory = o.ret,
                     !.heap[a.ret].bus_id = r.heap[o.ret].name,
                     !.heap[a.ret].name =
                         IF p # NullStr
                         THEN StripNewline(NameAfterCopy(f, p))
                         ELSE <<>>],
           a.ret)))))

RECURSIVE sysfs_close_device_tree(_, _)
RECURSIVE CloseChildren(_, _)

CloseChildren(s, items) ==
    IF items = <<>> THEN s
    ELSE CloseChildren(sysfs_close_device_tree(s, items[1]), Tail(items))

sysfs_close_device_tree(s, devroot) ==
    IF devroot = NULL THEN s
    ELSE sysfs_close_device(
             IF s.heap[devroot].children # NULL
             THEN CloseChildren(s, s.heap[s.heap[devroot].children].items)
             ELSE s,
             devroot)

RECURSIVE sysfs_open_device_tree(_, _, _)
RECURSIVE OpenChildren(_, _, _, _)

\* sysfs_open_device_tree returning on a failed child without closing rootdev
OpenChildren_noclose(s, f, rootdev, i) ==
    IF i > Len(s.heap[s.heap[rootdev].directory].subdirs)
    THEN Return(s, rootdev)
    ELSE
    Bind(sysfs_open_device_tree(
             s, f, s.heap[s.heap[rootdev].directory].subdirs[i]), LAMBDA n :
    IF n.ret = NULL
    THEN Return(n, NULL)
    ELSE
    Bind(IF n.heap[rootdev].children = NULL
         THEN Bind(dlist_new_with_delete(n, "sysfs_del_device"), LAMBDA l :
                   [l EXCEPT !.heap[rootdev].children = l.ret])
         ELSE n, LAMBDA c :
    OpenChildren(dlist_unshift(c, c.heap[rootdev].children, n.ret),
                 f, rootdev, i + 1)))

\* the dlist_for_each_data loop of sysfs_open_device_tree, from entry i on
OpenChildren(s, f, rootdev, i) ==
    IF i > Len(s.heap[s.heap[rootdev].directory].subdirs)
    THEN Return(s, rootdev)
    ELSE
    Bind(sysfs_open_device_tree(
             s, f, s.heap[s.heap[rootdev].directory].subdirs[i]), LAMBDA n :
    IF n.ret = NULL
    THEN Return(sysfs_close_device_tree(n, rootdev), NULL)
    ELSE
    Bind(IF n.heap[rootdev].children = NULL
         THEN Bind(dlist_new_with_delete(n, "sysfs_del_device"), LAMBDA l :
                   [l EXCEPT !.heap[rootdev].children = l.ret])
         ELSE n, LAMBDA c :
    OpenChildren(dlist_unshift(c, c.heap[rootdev].children, n.ret),
                 f, rootdev, i + 1)))

sysfs_open_device_tree(s, f, path) ==
    IF path = NullStr THEN Return([s EXCEPT !.errno = EINVAL], NULL)
    ELSE
    Bind(sysfs_open_device(s, f, path), LAMBDA r :
    IF r.ret = NULL THEN Return(r, NULL)
    ELSE OpenChildren(r, f, r.ret, 1))

(* ---------------------------- sysfs_class.c ---------------------------- *)
sysfs_close_class_device(s, dev) ==
    IF dev = NULL THEN s
    ELSE
    Bind(IF s.heap[dev].directory # NULL
         THEN sysfs_close_directory(s, s.heap[dev].directory)
         ELSE s, LAMBDA s1 :
    Bind(IF s1.heap[dev].sysdevice # NULL
         THEN sysfs_close_device(s1, s1.heap[dev].sysdevice)
         ELSE s1, LAMBDA s2 :
    Bind(IF s2.heap[dev].driver # NULL
         THEN sysfs_close_driver(s2, s2.heap[dev].driver)
         ELSE s2, LAMBDA s3 :
    Free(s3, dev))))

sysfs_close_class(s, cls) ==
    IF cls = NULL THEN s
    ELSE
    Bind(IF s.heap[cls].directory # NULL
         THEN sysfs_close_directory(s, s.heap[cls].directory)
         ELSE s, LAMBDA s1 :
    Bind(IF s1.heap[cls].devices # NULL
         THEN dlist_destroy(s1, s1.heap[cls].devices)
         ELSE s1, LAMBDA s2 :
    Free(s2, cls)))

alloc_class_device(s) == Alloc(s, Blank("class_device"))

alloc_class(s) == Alloc(s, Blank("class"))

open_class_dir(s, f, name) ==
    IF name = NullStr THEN Return([s EXCEPT !.errno = EINVAL], NULL)
    ELSE
    Bind(sysfs_get_mnt_path(f), LAMBDA m :
    IF m.ret # 0 THEN Return(s, NULL)
    ELSE
    Bind(sysfs_open_directory(s, f, m.path \o SYSFS_CLASS_DIR \o name),
         LAMBDA o :
    IF o.ret = NULL
    THEN Return([o EXCEPT !.errno = EINVAL], NULL)
    ELSE
    Bind(sysfs_read_directory(o, f, o.ret), LAMBDA r :
    IF r.ret # 0
    THEN Return(sysfs_close_directory(r, o.ret), NULL)
    ELSE Return(r, o.ret))))

RECURSIVE ScanLinks(_, _, _, _)

\* the link scan stopping at the first device-link that does not resolve
ScanLinks_break(s, f, cdev, i) ==
    IF i > Len(s.heap[s.heap[cdev].directory].links) THEN s
    ELSE
    Bind(s.heap[s.heap[cdev].directory].links[i], LAMBDA curl :
    IF strncmp(curl.name, SYSFS_DEVICES_NAME, 6) = 0
    THEN Bind(sysfs_open_device(s, f, curl.target), LAMBDA o :
         IF o.ret # NULL
         THEN Bind([o EXCEPT !.heap[cdev].sysdevice = o.ret], LAMBDA s1 :
              ScanLinks(IF s1.heap[cdev].driver # NULL
                        THEN [s1 EXCEPT !.heap[o.ret].driver =
                                            s1.heap[cdev].driver]
                        ELSE s1,
                        f, cdev, i + 1))
         ELSE o)
    ELSE IF strncmp(curl.name, SYSFS_DRIVERS_NAME, 6) = 0
    THEN Bind(sysfs_open_driver(s, f, curl.target), LAMBDA o :
         IF o.ret # NULL
         THEN Bind([o EXCEPT !.heap[cdev].driver = o.ret], LAMBDA s1 :
              ScanLinks(IF s1.heap[cdev].sysdevice # NULL
                        THEN [s1 EXCEPT !.heap[o.ret].device =
                                            s1.heap[cdev].sysdevice]
                        ELSE s1,
                        f, cdev, i + 1))
         ELSE ScanLinks(o, f, cdev, i + 1))
    ELSE ScanLinks(s, f, cdev, i + 1))

\* the dlist_for_each_data loop of sysfs_open_class_device, from link i on
ScanLinks(s, f, cdev, i) ==
    IF i > Len(s.heap[s.heap[cdev].directory].links) THEN s
    ELSE
    Bind(s.heap[s.heap[cdev].directory].links[i], LAMBDA curl :
    IF strncmp(curl.name, SYSFS_DEVICES_NAME, 6) = 0
    THEN Bind(sysfs_open_device(s, f, curl.target), LAMBDA o :
         IF o.ret # NULL
         THEN Bind([o EXCEPT !.heap[cdev].sysdevice = o.ret], LAMBDA s1 :
              ScanLinks(IF s1.heap[cdev].driver # NULL
                        THEN [s1 EXCEPT !.heap[o.ret].driver =
                                            s1.heap[cdev].driver]
                        ELSE s1,
                        f, cdev, i + 1))
         ELSE ScanLinks(o, f, cdev, i + 1))
    ELSE IF strncmp(curl.name, SYSFS_DRIVERS_NAME, 6) = 0
    THEN Bind(sysfs_open_driver(s, f, curl.target), LAMBDA o :
         IF o.ret # NULL
         THEN Bind([o EXCEPT !.heap[cdev].driver = o.ret], LAMBDA s1 :
              ScanLinks(IF s1.heap[cdev].sysdevice # NULL
                        THEN [s1 EXCEPT !.heap[o.ret].device =
                                            s1.heap[cdev].sysdevice]
                        ELSE s1,
                        f, cdev, i + 1))
         ELSE ScanLinks(o, f, cdev, i + 1))
    ELSE ScanLinks(s, f, cdev, i + 1))

sysfs_open_class_device(s, f, path) ==
    IF path = NullStr THEN Return([s EXCEPT !.errno = EINVAL], NULL)
    ELSE
    Bind(alloc_class_device(s), LAMBDA a :
    Bind(sysfs_get_name_from_path(path), LAMBDA n :
    IF n.ret # 0
    THEN Return(sysfs_close_class_device([a EXCEPT !.errno = EINVAL], a.ret),
                NULL)
    ELSE
    Bind(sysfs_open_directory([a EXCEPT !.heap[a.ret].name = n.name], f, path),
         LAMBDA o :
    IF o.ret = NULL
    THEN Return(sysfs_close_class_device(o, a.ret), NULL)
    ELSE
    Bind(sysfs_read_directory(o, f, o.ret), LAMBDA r :
    IF r.ret # 0
    THEN Return(sysfs_close_class_device(sysfs_close_directory(r, o.ret),
                                         a.ret), NULL)
    ELSE
    Bind(sysfs_read_all_subdirs(r, o.ret), LAMBDA d :
    Bind([d EXCEPT !.heap[a.ret].directory = o.ret,
                   !.heap[a.ret].path = d.heap[o.ret].path], LAMBDA c :
    Return(IF c.heap[o.ret].links # <<>>
           THEN ScanLinks(c, f, a.ret, 1)
           ELSE c,
           a.ret)))))))

RECURSIVE ClassDevicesLoop(_, _, _, _)

\* get_all_class_devices adding each device at the tail of the list
ClassDevicesLoop_push(s, f, cls, i) ==
    IF i > Len(s.heap[s.heap[cls].directory].subdirs) THEN Return(s, 0)
    ELSE
    Bind(sysfs_open_class_device(
             s, f, s.heap[s.heap[cls].directory].subdirs[i]), LAMBDA o :
    IF o.ret = NULL
    THEN ClassDevicesLoop(o, f, cls, i + 1)
    ELSE
    Bind(IF o.heap[cls].devices = NULL
         THEN Bind(dlist_new_with_delete(o, "sysfs_close_cls_dev"), LAMBDA l :
                   [l EXCEPT !.heap[cls].devices = l.ret])
         ELSE o, LAMBDA c :
    ClassDevicesLoop(
        [c EXCEPT !.heap[c.heap[cls].devices].items = Append(@, o.ret)],
        f, cls, i + 1)))

\* get_all_class_devices reporting a failed class device as its own failure
ClassDevicesLoop_failfast(s, f, cls, i) ==
    IF i > Len(s.heap[s.heap[cls].directory].subdirs) THEN Return(s, 0)
    ELSE
    Bind(sysfs_open_class_device(
             s, f, s.heap[s.heap[cls].directory].subdirs[i]), LAMBDA o :
    IF o.ret = NULL
    THEN Return(o, -1)
    ELSE
    Bind(IF o.heap[cls].devices = NULL
         THEN Bind(dlist_new_with_delete(o, "sysfs_close_cls_dev"), LAMBDA l :
                   [l EXCEPT !.heap[cls].devices = l.ret])
         ELSE o, LAMBDA c :
    ClassDevicesLoop(dlist_unshift(c, c.heap[cls].devices, o.ret),
                     f, cls, i + 1)))

\* the dlist_for_each_data loop of get_all_class_devices, from entry i on
ClassDevicesLoop(s, f, cls, i) ==
    IF i > Len(s.heap[s.heap[cls].directory].subdirs) THEN Return(s, 0)
    ELSE
    Bind(sysfs_open_class_device(
             s, f, s.heap[s.heap[cls].directory].subdirs[i]), LAMBDA o :
    IF o.ret = NULL
    THEN ClassDevicesLoop(o, f, cls, i + 1)
    ELSE
    Bind(IF o.heap[cls].devices = NULL
         THEN Bind(dlist_new_with_delete(o, "sysfs_close_cls_dev"), LAMBDA l :
                   [l EXCEPT !.heap[cls].devices = l.ret])
         ELSE o, LAMBDA c :
    ClassDevicesLoop(dlist_unshift(c, c.heap[cls].devices, o.ret),
                     f, cls, i + 1)))

get_all_class_devices(s, f, cls) ==
    IF cls = NULL \/ s.heap[cls].directory = NULL
    THEN Return([s EXCEPT !.errno = EINVAL], -1)
    ELSE IF s.heap[s.heap[cls].directory].subdirs = <<>>
    THEN Return(s, 0)
    ELSE ClassDevicesLoop(s, f, cls, 1)

\* sysfs_open_class without the check of its argument
sysfs_open_class_nocheck(s, f, name) ==
    Bind(alloc_class(s), LAMBDA a :
    Bind(open_class_dir([a EXCEPT !.heap[a.ret].name = name], f, name),
         LAMBDA o :
    IF o.ret = NULL
    THEN Return(sysfs_close_class(o, a.ret), NULL)
    ELSE
    Bind(get_all_class_devices(
             [o EXCEPT !.heap[a.ret].directory = o.ret,
                       !.heap[a.ret].path = o.heap[o.ret].path], f, a.ret),
         LAMBDA g :
    IF g.ret # 0
    THEN Return(sysfs_close_class(g, a.ret), NULL)
    ELSE Return(g, a.ret))))

sysfs_open_class(s, f, name) ==
    IF name = NullStr THEN Return([s EXCEPT !.errno = EINVAL], NULL)
    ELSE
    Bind(alloc_class(s), LAMBDA a :
    Bind(open_class_dir([a EXCEPT !.heap[a.ret].name = name], f, name),
         LAMBDA o :
    IF o.ret = NULL
    THEN Return(sysfs_close_class(o, a.ret), NULL)
    ELSE
    Bind(get_all_class_devices(
             [o EXCEPT !.heap[a.ret].directory = o.ret,
                       !.heap[a.ret].path = o.heap[o.ret].path], f, a.ret),
         LAMBDA g :
    IF g.ret # 0
    THEN Return(sysfs_close_class(g, a.ret), NULL)
    ELSE Return(g, a.ret))))

(* --------------------- file systems given as input --------------------- *)
Status == {"ok", "noopen", "noread"}

Desc(st, attrs, subdirs, links) ==
    [status |-> st, attrs |-> attrs, subdirs |-> subdirs, links |-> links]

Chars == {"a", "\n"}

Values == UNION {[1..n -> Chars] : n \in 0..MaxValLen}

\* what may follow the name buffer in memory, up to the next zero byte
Adjacent == {<<>>, <<"b">>, <<"\n">>}

OtherAttr == [name |-> <<"u">>, value |-> <<"a">>]

NameAttr(v) == [name |-> SYSFS_NAME_ATTRIBUTE, value |-> v]

AttrChoices ==
    {<<>>, <<OtherAttr>>} \cup {<<OtherAttr, NameAttr(v)>> : v \in Values}

SysMnt == <<"sys">>
DevPath == <<"sys", "devices", "d0">>
DrvPath == <<"sys", "bus", "drv0">>

DeviceFS ==
    {[mnt |-> SysMnt, adj |-> a,
      dirs |-> (DevPath :> Desc(st, at, <<>>, <<>>))] :
        a \in Adjacent, st \in Status, at \in AttrChoices}

\* a full binary tree of directories, d levels below the root
TreeRoot == <<"sys", "devices">>
ChildNames == <<"a", "b">>

TreePaths(d) ==
    {TreeRoot \o q : q \in UNION {[1..n -> {"a", "b"}] : n \in 0..d}}

TreeSubdirs(d, p) ==
    IF Len(p) - Len(TreeRoot) < d
    THEN [i \in 1..Len(ChildNames) |-> p \o <<ChildNames[i]>>]
    ELSE <<>>

TreeFS ==
    {[mnt |-> SysMnt, adj |-> <<>>,
      dirs |-> [p \in TreePaths(d) |->
                  Desc(IF p \in bad THEN kind ELSE "ok",
                       <<NameAttr(<<"a", "\n">>)>>, TreeSubdirs(d, p), <<>>)]] :
        d \in 0..MaxDepth, kind \in {"noopen", "noread"},
        bad \in {b \in SUBSET TreePaths(MaxDepth) : Cardinality(b) <= MaxFail}}

\* a class device directory and the targets of its links
CDPath == <<"sys", "class", "net", "eth0">>

LinkNames ==
    {<<"d", "e", "v", "i", "c", "e">>, SYSFS_DEVICES_NAME,
     <<"d", "r", "i", "v", "e", "r">>, SYSFS_DRIVERS_NAME,
     <<"p", "o", "w", "e", "r">>}

\* link entries: a name and whether its target resolves; names are distinct
LinkSpecs ==
    UNION {{l \in [1..n -> LinkNames \X BOOLEAN] :
              \A i, j \in 1..n : i # j => l[i][1] # l[j][1]} :
           n \in 0..MaxLinks}

Target(i) == <<"sys", "target", ToString(i)>>

LinksOf(l) == [i \in 1..Len(l) |-> [name |-> l[i][1], target |-> Target(i)]]

ClassDeviceFS ==
    {[mnt |-> SysMnt, adj |-> <<>>,
      dirs |-> [p \in {CDPath} \cup {Target(i) : i \in {j \in 1..Len(l) : l[j][2]}}
                  |-> IF p = CDPath
                      THEN Desc(st, <<>>, <<>>, LinksOf(l))
                      ELSE Desc("ok", <<NameAttr(<<"a", "\n">>)>>, <<>>, <<>>)]] :
        st \in Status, l \in LinkSpecs}

\* /sys/class with the class "net" and its class device directories
ClassRoot == SysMnt \o SYSFS_CLASS_DIR
NetPath == ClassRoot \o <<"net">>

NetDev(i) == NetPath \o <<ToString(i)>>

DevLinks ==
    <<[name |-> <<"d", "e", "v", "i", "c", "e">>, target |-> DevPath],
      [name |-> <<"d", "r", "i", "v", "e", "r">>, target |-> DrvPath]>>

ClassFS ==
    {[mnt |-> m, adj |-> <<>>,
      dirs |-> [p \in {ClassRoot, NetPath, DevPath, DrvPath}
                       \cup {NetDev(i) : i \in 1..Len(sts)}
                  |-> IF p = ClassRoot THEN Desc(rs, <<>>, <<NetPath>>, <<>>)
                      ELSE IF p = NetPath
                      THEN Desc(cs, <<>>, [i \in 1..Len(sts) |-> NetDev(i)], <<>>)
                      ELSE IF p \in {DevPath, DrvPath}
                      THEN Desc("ok", <<>>, <<>>, <<>>)
                      ELSE Desc(sts[CHOOSE i \in 1..Len(sts) : p = NetDev(i)],
                                <<>>, <<>>, DevLinks)]] :
        m \in {NullStr, SysMnt}, rs \in Status, cs \in Status,
        sts \in UNION {[1..k -> Status] : k \in 0..MaxSubdirs}}

ClassNames == {NullStr, <<>>, <<"net">>, <<"block">>}

(* ----------------------------- the program ----------------------------- *)
NoFS == [mnt |-> NullStr, adj |-> <<>>, dirs |-> <<>>]

Init ==
    /\ fs = NoFS
    /\ heap = <<>>
    /\ errno = "0"
    /\ call = "none"
    /\ arg = NullStr
    /\ ret = NULL

S0 == [heap |-> heap, errno |-> errno, ret |-> NULL]

Called(f, op, a, r) ==
    /\ fs' = f
    /\ call' = op
    /\ arg' = a
    /\ heap' = r.heap
    /\ errno' = r.errno
    /\ ret' = r.ret

Closed(op, r) ==
    /\ call' = op
    /\ heap' = r.heap
    /\ errno' = r.errno
    /\ UNCHANGED <<fs, arg, ret>>

OpenDevice ==
    /\ call = "none"
    /\ \E f \in DeviceFS, path \in {NullStr, DevPath} :
          Called(f, "sysfs_open_device", path, sysfs_open_device(S0, f, path))

CloseDevice ==
    /\ call = "sysfs_open_device"
    /\ Closed("sysfs_close_device", sysfs_close_device(S0, ret))

OpenDeviceTree ==
    /\ call = "none"
    /\ \E f \in TreeFS, path \in {NullStr, TreeRoot} :
          Called(f, "sysfs_open_device_tree", path,
                 sysfs_open_device_tree(S0, f, path))

CloseDeviceTree ==
    /\ call = "sysfs_open_device_tree"
    /\ Closed("sysfs_close_device_tree", sysfs_close_device_tree(S0, ret))

OpenClassDevice ==
    /\ call = "none"
    /\ \E f \in ClassDeviceFS, path \in {NullStr, <<>>, CDPath} :
          Called(f, "sysfs_open_class_device", path,
                 sysfs_open_class_device(S0, f, path))

CloseClassDevice ==
    /\ call = "sysfs_open_class_device"
    /\ Closed("sysfs_close_class_device", sysfs_close_class_device(S0, ret))

OpenClass ==
    /\ call = "none"
    /\ \E f \in ClassFS, name \in ClassNames :
          Called(f, "sysfs_open_class", name, sysfs_open_class(S0, f, name))

CloseClass ==
    /\ call = "sysfs_open_class"
    /\ Closed("sysfs_close_class", sysfs_close_class(S0, ret))

Next ==
    \/ OpenDevice
    \/ CloseDevice
    \/ OpenDeviceTree
    \/ CloseDeviceTree
    \/ OpenClassDevice
    \/ CloseClassDevice
    \/ OpenClass
    \/ CloseClass

Spec == Init /\ [][Next]_vars

(* ------------------------ vocabulary of the claims --------------------- *)
Reverse(q) == [i \in 1..Len(q) |-> q[Len(q) + 1 - i]]

Objects(kinds) == {i \in 1..Len(heap) : heap[i].kind \in kinds}

\* a directory that opens and reads
Readable(p) == p \in DOMAIN fs.dirs /\ fs.dirs[p].status = "ok"

\* the paths of the objects a list holds, head first
ItemPaths(l) == [i \in 1..Len(heap[l].items) |-> heap[heap[l].items[i]].path]

ChildDirs(l) ==
    [i \in 1..Len(heap[l].items) |->
        heap[heap[heap[l].items[i]].directory].path]

\* the link entries of the class device directory and how the scan sees them
CDLinks == fs.dirs[CDPath].links

IsDeviceLink(l) == Take(l.name, 6) = <<"d", "e", "v", "i", "c", "e">>

IsDriverLink(l) == Take(l.name, 6) = <<"d", "r", "i", "v", "e", "r">>

DeviceLinksOK == {i \in 1..Len(CDLinks) :
                    IsDeviceLink(CDLinks[i]) /\ Readable(CDLinks[i].target)}

DriverLinksOK == {i \in 1..Len(CDLinks) :
                    IsDriverLink(CDLinks[i]) /\ Readable(CDLinks[i].target)}

DeviceLinks == {i \in 1..Len(CDLinks) : IsDeviceLink(CDLinks[i])}

DriverLinks == {i \in 1..Len(CDLinks) : IsDriverLink(CDLinks[i])}

ClassDeviceBuilt ==
    call = "sysfs_open_class_device" /\ arg = CDPath /\ ret # NULL

(* ------------------------------- C1 ------------------------------------ *)
\* C1: with one device-link and one driver-link that both resolve, in
\* either order, the returned class device has device.driver = driver and
\* driver.device = device.
C1_Symmetric ==
    (/\ ClassDeviceBuilt
     /\ Cardinality(DeviceLinks) = 1 /\ Cardinality(DriverLinks) = 1
     /\ DeviceLinksOK = DeviceLinks /\ DriverLinksOK = DriverLinks)
    => /\ heap[ret].sysdevice # NULL
       /\ heap[ret].driver # NULL
       /\ heap[heap[ret].sysdevice].driver = heap[ret].driver
       /\ heap[heap[ret].driver].device = heap[ret].sysdevice

(* ------------------------------- C2 ------------------------------------ *)
ClassBuilt == call = "sysfs_open_class" /\ ret # NULL

BuiltSubdirs == SelectSeq(heap[heap[ret].directory].subdirs, Readable)

TreeBuilt == call = "sysfs_open_device_tree" /\ ret # NULL

RootRead ==
    /\ arg # NullStr
    /\ fs.mnt # NullStr
    /\ Readable(fs.mnt \o <<"class">> \o arg)

\* C3: sysfs_open_class fails only when the class root cannot be located,
\* opened or listed; otherwise it returns a Class whose devices hold one
\* entry per subdirectory whose class device build succeeded, and whose
\* devices are absent when none succeeded.
C3_SkipFailedDevices ==
    call = "sysfs_open_class" =>
      /\ (ret # NULL) <=> RootRead
      /\ ret # NULL =>
           /\ heap[ret].kind = "class"
           /\ heap[ret].frees = 0
           /\ IF BuiltSubdirs = <<>>
              THEN heap[ret].devices = NULL
              ELSE /\ heap[ret].devices # NULL
                   /\ Len(heap[heap[ret].devices].items) = Len(BuiltSubdirs)
                   /\ \A i \in 1..Len(BuiltSubdirs) :
                        \E j \in 1..Len(BuiltSubdirs) :
                           LET o == heap[heap[heap[ret].devices].items[j]]
                           IN  /\ o.kind = "class_device"
                               /\ o.frees = 0
                               /\ o.path = BuiltSubdirs[i]

C3_Witness ==
    /\ ClassBuilt
    /\ arg = <<"net">>
    /\ Len(BuiltSubdirs) = 1
    /\ Len(heap[heap[ret].directory].subdirs) = 3
    /\ Len(heap[heap[ret].devices].items) = 1

(* ------------------------------- C4 ------------------------------------ *)
\* some directory of the tree fails to open or to read
SomeDirFails == \E p \in DOMAIN fs.dirs : fs.dirs[p].status # "ok"

\* C4: when the build of any directory of the tree fails, the call returns
\* NULL and every Device node and Directory Snapshot built before the
\* failure has been closed exactly once.
C4_AllOrNothing ==
    (call = "sysfs_open_device_tree" /\ arg = TreeRoot /\ SomeDirFails)
    => /\ ret = NULL
       /\ \A i \in Objects({"device", "directory"}) : heap[i].frees = 1

\* a failure below the root after a sibling subtree was built
C4_Witness ==
    /\ call = "sysfs_open_device_tree"
    /\ arg = TreeRoot
    /\ ret = NULL
    /\ Cardinality({i \in Objects({"device"}) : heap[i].directory # NULL}) >= 4
    /\ \E i \in Objects({"device"}) : heap[i].directory = NULL

(* ------------------------------- C5 ------------------------------------ *)
\* C5: after a successful sysfs_open_device_tree and sysfs_close_device_tree
\* of its result, every Device node, Directory Snapshot and children
\* collection the build allocated has been released exactly once.
C5_TreeReleased ==
    (call = "sysfs_close_device_tree" /\ ret # NULL)
    => \A i \in Objects({"device", "directory", "dlist"}) : heap[i].frees = 1

(* ------------------------------- C6 ------------------------------------ *)
\* C6: sysfs_open_class_device then sysfs_close_class_device releases every
\* Device and Driver object the open created exactly once.
C6_ClassDeviceReleased ==
    call = "sysfs_close_class_device"
    => \A i \in Objects({"device", "driver"}) : heap[i].frees = 1

(* ------------------------------- C7 ------------------------------------ *)
\* C7: a link that fails to resolve never fails the build: the class device
\* is returned with name, path and snapshot populated, device is absent
\* when no device-link resolved, and a driver-link that resolves sets the
\* driver whatever happened to the links before it (and symmetrically).
C7_LinkFailureSkipped ==
    (/\ call = "sysfs_open_class_device"
     /\ arg = CDPath
     /\ Readable(CDPath))
    => /\ ret # NULL
       /\ heap[ret].frees = 0
       /\ heap[ret].name = <<"eth0">>
       /\ heap[ret].path = CDPath
       /\ heap[ret].directory # NULL
       /\ heap[heap[ret].directory].frees = 0
       /\ heap[heap[ret].directory].links = CDLinks
       /\ (heap[ret].sysdevice = NULL) <=> (DeviceLinksOK = {})
       /\ (heap[ret].driver = NULL) <=> (DriverLinksOK = {})

\* a device-link that does not resolve, followed by a driver-link that does
C7_Witness ==
    /\ ClassDeviceBuilt
    /\ \E i, j \in 1..Len(CDLinks) :
          /\ i < j
          /\ i \in DeviceLinks \ DeviceLinksOK
          /\ j \in DriverLinksOK
    /\ heap[ret].sysdevice = NULL
    /\ heap[ret].driver # NULL

(* ------------------------------- C8 ------------------------------------ *)
\* C8 as stated: sysfs_open_class fails with EINVAL for an absent name and
\* for an empty name, whatever the file system contains.
C8_AbsentOrEmptyRejected ==
    (call = "sysfs_open_class" /\ arg \in {NullStr, <<>>})
    => ret = NULL /\ errno = EINVAL

\* C8 amended: sysfs_open_class fails with EINVAL for an absent name,
\* allocating nothing, whatever the file system contains; an empty name is
\* not rejected: the class directory itself is taken as the class root and
\* a Class is returned exactly when that directory opens and reads.
C8_AbsentRejected ==
    call = "sysfs_open_class" =>
      /\ arg = NullStr => (ret = NULL /\ errno = EINVAL /\ heap = <<>>)
      /\ arg = <<>> =>
           ((ret # NULL) <=> (fs.mnt # NullStr /\ Readable(ClassRoot)))
      /\ (arg = <<>> /\ ret # NULL) =>
           (heap[ret].name = <<>> /\ heap[ret].path = ClassRoot)

C8_Witness ==
    /\ call = "sysfs_open_class"
    /\ arg = <<>>
    /\ ret # NULL
    /\ heap[ret].path = ClassRoot

(* ------------------------------- C9 ------------------------------------ *)
NameValue ==
    sysfs_get_value_from_attributes(fs.dirs[DevPath].attrs,
                                    SYSFS_NAME_ATTRIBUTE)

\* C9: for a readable device directory sysfs_open_device succeeds and sets
\* Device.name to the value of the "name" attribute less one trailing
\* newline, or leaves it empty when there is no such attribute.
C9_NameTrimmed ==
    (call = "sysfs_open_device" /\ arg = DevPath /\ Readable(DevPath))
    => /\ ret # NULL
       /\ heap[ret].name =
            IF NameValue = NullStr THEN <<>>
            ELSE IF NameValue # <<>> /\ NameValue[Len(NameValue)] = "\n"
            THEN SubSeq(NameValue, 1, Len(NameValue) - 1)
            ELSE NameValue

(* ------------------------------- C10 ----------------------------------- *)
\* C10: after sysfs_open_class_device, every back-reference that is set
\* points to the object the class device owns now.
C10_BackRefsCurrent ==
    ClassDeviceBuilt =>
      /\ \A d \in Objects({"device"}) :
            heap[d].driver = NULL \/ heap[d].driver = heap[ret].driver
      /\ \A d \in Objects({"driver"}) :
            heap[d].device = NULL \/ heap[d].device = heap[ret].sysdevice

====
